---- MODULE Spec2Model ----
(***************************************************************************)
(* A model of bibtexparser's Library (src/bibtexparser/library.py): the    *)
(* ordered block list, the two key-indexed dicts, and the operations add,  *)
(* remove, replace and apply_middleware, translated statement by statement.*)
(*                                                                         *)
(* Python objects are modelled as follows.                                 *)
(*  - A block is a record; two blocks are the same object iff the records  *)
(*    are equal (every block carries an object id `oid`; a block a         *)
(*    middleware returns changed is another record, hence another object). *)
(*  - A list object lives in `heap` under an address, so that two          *)
(*    Libraries sharing one list would be visible; a dict is a function    *)
(*    whose DOMAIN is the set of keys present.                             *)
(*  - An operation is an operator from a world [heap, libs] to a result    *)
(*    [w, exc]: the world it leaves behind and the exception it raised     *)
(*    ("None" when it returned normally).                                  *)
(***************************************************************************)
EXTENDS Integers, Sequences, FiniteSets, TLC

VARIABLES
    heap,   \* address -> sequence of blocks: the list objects
    libs,   \* library name -> Library object (its three attributes)
    last,   \* the most recent call: the operation and the exception it raised
    only_adds   \* history: no remove and no replace was called on recv so far

vars == <<heap, libs, last, only_adds>>

-----------------------------------------------------------------------------
(* Bounds of the model *)

\* Longest block list an add may build.
MaxBlocks == 2
\* Longest list of blocks handed to one add or remove call.
MaxBatch == 2
\* Longest middleware chain handed to apply_middleware.
MaxChain == 2

-----------------------------------------------------------------------------
(* Blocks (bibtexparser.model) *)

Entry(oid, key) ==
    [type |-> "Entry", oid |-> oid, key |-> key, start_line |-> oid, raw |-> 1]

String(oid, key) ==
    [type |-> "String", oid |-> oid, key |-> key, start_line |-> oid, raw |-> 1]

\* A Preamble has no key attribute.
Preamble(oid) ==
    [type |-> "Preamble", oid |-> oid, start_line |-> oid, raw |-> 1]

DuplicateKeyBlock(oid, start_line, raw, key, previous_block, duplicate_block) ==
    [type |-> "DuplicateKeyBlock", oid |-> oid, start_line |-> start_line,
     raw |-> raw, key |-> key, previous_block |-> previous_block,
     duplicate_block |-> duplicate_block]

\* The variants are a closed set of unrelated classes below Block.
IsInstance(b, t) == b.type = t

\* list.index / list.remove / `is` find a block by the object it is.
SameBlock(a, b) == a = b

\* The blocks a caller constructs and hands to the Library: two entries that
\* share a key, one with another key, a string sharing the entries' key, and
\* an unkeyed block.
E1 == Entry(1, "k1")
E2 == Entry(2, "k1")
E3 == Entry(3, "k2")
S1 == String(4, "k1")
P1 == Preamble(5)
Universe == {E1, E2, E3, S1, P1}

\* Object ids of the DuplicateKeyBlocks the Library constructs follow those
\* of the caller's blocks.
FirstDupOid == Cardinality(Universe) + 1

-----------------------------------------------------------------------------
(* Python's list and dict primitives *)

Contains(list, b) == \E i \in 1..Len(list) : SameBlock(list[i], b)

\* list.index(b): the first position of b, 1-based; 0 stands for ValueError.
ListIndex(list, b) ==
    IF Contains(list, b)
    THEN CHOOSE i \in 1..Len(list) :
            /\ SameBlock(list[i], b)
            /\ \A j \in 1..(i - 1) : ~SameBlock(list[j], b)
    ELSE 0

\* list.remove(b) on a list that contains b: drops the first occurrence.
ListRemove(list, b) ==
    LET i == ListIndex(list, b)
    IN  SubSeq(list, 1, i - 1) \o SubSeq(list, i + 1, Len(list))

\* An insert that ignores the index and appends.
ListInsertAtEnd(list, index, b) == Append(list, b)

\* list.insert(index, b) with a 1-based index not past the end plus one.
ListInsert(list, index, b) ==
    SubSeq(list, 1, index - 1) \o <<b>> \o SubSeq(list, index, Len(list))

EmptyDict == [k \in {} |-> 0]

\* A store that ignores the key it is given.
DictSetFixedKey(d, k, v) ==
    [x \in DOMAIN d \cup {"k2"} |-> IF x = "k2" THEN v ELSE d[x]]

DictSet(d, k, v) == [x \in DOMAIN d \cup {k} |-> IF x = k THEN v ELSE d[x]]

DictDel(d, k) == [x \in DOMAIN d \ {k} |-> d[x]]

DictValues(d) == {d[k] : k \in DOMAIN d}

SeqRange(s) == {s[i] : i \in 1..Len(s)}

-----------------------------------------------------------------------------
(* Object allocation *)

\* Every block some Library of the world refers to.
LiveBlocks(w) ==
    UNION {SeqRange(w.heap[a]) : a \in DOMAIN w.heap}
    \cup UNION {DictValues(w.libs[l]._entries_by_key) : l \in DOMAIN w.libs}
    \cup UNION {DictValues(w.libs[l]._strings_by_key) : l \in DOMAIN w.libs}

\* The id of a new object: the least one no live DuplicateKeyBlock bears.
FreshOid(w) ==
    LET used == {b.oid : b \in LiveBlocks(w)}
    IN  CHOOSE n \in FirstDupOid..(FirstDupOid + Cardinality(used)) :
            /\ n \notin used
            /\ \A m \in FirstDupOid..(n - 1) : m \in used

\* The address of a new list object.
FreshAddr(w) ==
    CHOOSE a \in 1..(Cardinality(DOMAIN w.heap) + 1) :
        /\ a \notin DOMAIN w.heap
        /\ \A m \in 1..(a - 1) : m \in DOMAIN w.heap

\* A new list object holding `contents`.
NewList(w, contents) ==
    LET a == FreshAddr(w)
    IN  [w |-> [w EXCEPT !.heap = (a :> contents) @@ w.heap], addr |-> a]

\* A copy that is the list itself.
ListAlias(w, a) == [w |-> w, addr |-> a]

\* list.copy(): a new list object with the same elements.
ListCopy(w, a) == NewList(w, w.heap[a])

-----------------------------------------------------------------------------
(* Library: construction and the private helpers *)

\* Library.__init__(blocks): a copy of the list passed, [] for None, and two
\* empty dicts.  `blocks` is the address of the list passed, 0 for None.
Library__init__(w, l, blocks) ==
    LET c == IF blocks # 0 THEN ListCopy(w, blocks) ELSE NewList(w, <<>>)
    IN  [c.w EXCEPT !.libs = (l :> [_blocks |-> c.addr,
                                    _entries_by_key |-> EmptyDict,
                                    _strings_by_key |-> EmptyDict]) @@ c.w.libs]

\* The list of Library l.
BlocksOf(w, l) == w.heap[w.libs[l]._blocks]

\* _cast_to_duplicate with the two blocks stored the wrong way round.
CastToDuplicateSwapped(prev_block_with_same_key, duplicate, oid) ==
    IF ~(\/ IsInstance(prev_block_with_same_key, duplicate.type)
         \/ IsInstance(duplicate, prev_block_with_same_key.type))
    THEN [exc |-> "AssertionError", ret |-> duplicate]
    ELSE IF prev_block_with_same_key.key # duplicate.key
    THEN [exc |-> "AssertionError", ret |-> duplicate]
    ELSE [exc |-> "None",
          ret |-> DuplicateKeyBlock(oid, duplicate.start_line, duplicate.raw,
                                    duplicate.key, duplicate,
                                    prev_block_with_same_key)]

\* _cast_to_duplicate without its first assertion.
CastToDuplicateUntyped(prev_block_with_same_key, duplicate, oid) ==
    IF prev_block_with_same_key.key # duplicate.key
    THEN [exc |-> "AssertionError", ret |-> duplicate]
    ELSE [exc |-> "None",
          ret |-> DuplicateKeyBlock(oid, duplicate.start_line, duplicate.raw,
                                    duplicate.key, prev_block_with_same_key,
                                    duplicate)]

\* Library._cast_to_duplicate: both assertions, then the new DuplicateKeyBlock
\* (a new object, with id oid).
_cast_to_duplicate(prev_block_with_same_key, duplicate, oid) ==
    IF ~(\/ IsInstance(prev_block_with_same_key, duplicate.type)
         \/ IsInstance(duplicate, prev_block_with_same_key.type))
    THEN [exc |-> "AssertionError", ret |-> duplicate]
    ELSE IF prev_block_with_same_key.key # duplicate.key
    THEN [exc |-> "AssertionError", ret |-> duplicate]
    ELSE [exc |-> "None",
          ret |-> DuplicateKeyBlock(oid, duplicate.start_line, duplicate.raw,
                                    duplicate.key, prev_block_with_same_key,
                                    duplicate)]

\* A registration that stores nothing when the key is free.
RegisterInSkipFree(d, block, oid) ==
    IF block.key \in DOMAIN d
    THEN LET c == _cast_to_duplicate(d[block.key], block, oid)
         IN  IF c.exc # "None"
             THEN [dict |-> DictSet(d, block.key, block), ret |-> block,
                   exc |-> c.exc]
             ELSE [dict |-> DictSet(d, c.ret.key, c.ret), ret |-> c.ret,
                   exc |-> "None"]
    ELSE [dict |-> d, ret |-> block, exc |-> "None"]

\* One try / except KeyError / finally of _add_to_dicts, on the dict d: the
\* finally clause stores whatever `block` is bound to, also when the cast
\* raised (block is then still the argument).
RegisterIn(d, block, oid) ==
    IF block.key \in DOMAIN d
    THEN LET c == _cast_to_duplicate(d[block.key], block, oid)
         IN  IF c.exc # "None"
             THEN [dict |-> DictSet(d, block.key, block), ret |-> block,
                   exc |-> c.exc]
             ELSE [dict |-> DictSet(d, c.ret.key, c.ret), ret |-> c.ret,
                   exc |-> "None"]
    ELSE [dict |-> DictSet(d, block.key, block), ret |-> block, exc |-> "None"]

\* An _add_to_dicts with one namespace: Strings go to the entry dict too.
AddToDictsOneNamespace(w, l, block) ==
    IF IsInstance(block, "Entry") \/ IsInstance(block, "String")
    THEN LET r == RegisterIn(w.libs[l]._entries_by_key, block, FreshOid(w))
         IN  [w |-> [w EXCEPT !.libs[l]._entries_by_key = r.dict],
              ret |-> r.ret, exc |-> r.exc]
    ELSE [w |-> w, ret |-> block, exc |-> "None"]

\* Library._add_to_dicts: the registered block (ret), the world, the exception.
_add_to_dicts(w, l, block) ==
    IF IsInstance(block, "Entry")
    THEN LET r == RegisterIn(w.libs[l]._entries_by_key, block, FreshOid(w))
         IN  [w |-> [w EXCEPT !.libs[l]._entries_by_key = r.dict],
              ret |-> r.ret, exc |-> r.exc]
    ELSE IF IsInstance(block, "String")
    THEN LET r == RegisterIn(w.libs[l]._strings_by_key, block, FreshOid(w))
         IN  [w |-> [w EXCEPT !.libs[l]._strings_by_key = r.dict],
              ret |-> r.ret, exc |-> r.exc]
    ELSE [w |-> w, ret |-> block, exc |-> "None"]

\* `if isinstance(blocks, Block): blocks = [blocks]`.  An argument that is
\* one Block is <<"block", b>>, one that is a list is <<"list", bs>>.
AsList(blocks) == IF blocks[1] = "block" THEN <<blocks[2]>> ELSE blocks[2]

-----------------------------------------------------------------------------
(* Library: the public operations *)

\* The loop of add: register, then append what was registered; an exception
\* leaves the loop at once.
RECURSIVE AddLoop(_, _, _)
AddLoop(w, l, blocks) ==
    IF blocks = <<>>
    THEN [w |-> w, exc |-> "None"]
    ELSE LET r == _add_to_dicts(w, l, Head(blocks))
         IN  IF r.exc # "None"
             THEN [w |-> r.w, exc |-> r.exc]
             ELSE AddLoop([r.w EXCEPT !.heap[r.w.libs[l]._blocks] =
                                            Append(@, r.ret)],
                          l, Tail(blocks))

add(w, l, blocks) == AddLoop(w, l, AsList(blocks))

\* One turn of remove that deletes the key before it looks for the block.
RemoveOneDictFirst(w, l, block) ==
    LET w0 == IF /\ IsInstance(block, "Entry")
                 /\ block.key \in DOMAIN w.libs[l]._entries_by_key
              THEN [w EXCEPT !.libs[l]._entries_by_key = DictDel(@, block.key)]
              ELSE IF /\ IsInstance(block, "String")
                      /\ block.key \in DOMAIN w.libs[l]._strings_by_key
              THEN [w EXCEPT !.libs[l]._strings_by_key = DictDel(@, block.key)]
              ELSE w
    IN  IF ~Contains(BlocksOf(w, l), block)
        THEN [w |-> w0, exc |-> "ValueError: list.remove(x): x not in list"]
        ELSE [w |-> [w0 EXCEPT !.heap[w.libs[l]._blocks] =
                                     ListRemove(@, block)],
              exc |-> "None"]

\* One turn of the loop of remove.
RemoveOne(w, l, block) ==
    IF ~Contains(BlocksOf(w, l), block)
    THEN [w |-> w, exc |-> "ValueError: list.remove(x): x not in list"]
    ELSE LET w1 == [w EXCEPT !.heap[w.libs[l]._blocks] = ListRemove(@, block)]
         IN  IF IsInstance(block, "Entry")
             THEN IF block.key \in DOMAIN w1.libs[l]._entries_by_key
                  THEN [w |-> [w1 EXCEPT !.libs[l]._entries_by_key =
                                               DictDel(@, block.key)],
                        exc |-> "None"]
                  ELSE [w |-> w1, exc |-> "KeyError"]
             ELSE IF IsInstance(block, "String")
             THEN IF block.key \in DOMAIN w1.libs[l]._strings_by_key
                  THEN [w |-> [w1 EXCEPT !.libs[l]._strings_by_key =
                                               DictDel(@, block.key)],
                        exc |-> "None"]
                  ELSE [w |-> w1, exc |-> "KeyError"]
             ELSE [w |-> w1, exc |-> "None"]

RECURSIVE RemoveLoop(_, _, _)
RemoveLoop(w, l, blocks) ==
    IF blocks = <<>>
    THEN [w |-> w, exc |-> "None"]
    ELSE LET r == RemoveOne(w, l, Head(blocks))
         IN  IF r.exc # "None" THEN r ELSE RemoveLoop(r.w, l, Tail(blocks))

remove(w, l, blocks) == RemoveLoop(w, l, AsList(blocks))

\* Library.replace.  The try block catches ValueError alone: a KeyError of
\* remove leaves replace as it is.  The revert is a call of replace itself.
RECURSIVE replace(_, _, _, _, _)
replace(w, l, old_block, new_block, fail_on_duplicate_key) ==
    LET index == ListIndex(BlocksOf(w, l), old_block)
        rm == remove(w, l, <<"block", old_block>>)
    IN  IF index = 0 \/ rm.exc = "ValueError: list.remove(x): x not in list"
        THEN [w |-> IF index = 0 THEN w ELSE rm.w,
              exc |-> "ValueError: Block to replace is not in library."]
        ELSE IF rm.exc # "None"
        THEN rm
        ELSE LET w1 == [rm.w EXCEPT !.heap[rm.w.libs[l]._blocks] =
                                          ListInsert(@, index, new_block)]
                 reg == _add_to_dicts(w1, l, new_block)
                 block_after_add == reg.ret
             IN  IF reg.exc # "None"
                 THEN [w |-> reg.w, exc |-> reg.exc]
                 ELSE IF /\ ~SameBlock(new_block, block_after_add)
                         /\ IsInstance(new_block, "DuplicateKeyBlock")
                         /\ fail_on_duplicate_key
                 THEN LET rv == replace(reg.w, l, new_block, old_block, FALSE)
                      IN  IF rv.exc # "None"
                          THEN rv
                          ELSE [w |-> rv.w,
                                exc |-> "ValueError: Duplicate key found."]
                 ELSE [w |-> reg.w, exc |-> "None"]

-----------------------------------------------------------------------------
(* Middleware *)

\* The steps a caller may hand to apply_middleware: pure functions of the
\* block.  "rename" gives every keyed block the key "k1", "inc" and "double"
\* rewrite the text of a block; the Library's own sentinel blocks pass
\* through unchanged.
Middlewares == {"rename", "inc", "double"}

transform(block_middleware, b) ==
    IF IsInstance(b, "DuplicateKeyBlock")
    THEN b
    ELSE IF block_middleware = "rename"
    THEN IF IsInstance(b, "Entry") \/ IsInstance(b, "String")
         THEN [b EXCEPT !.key = "k1"]
         ELSE b
    ELSE IF block_middleware = "inc"
    THEN [b EXCEPT !.raw = @ + 1]
    ELSE [b EXCEPT !.raw = @ * 2]

\* `if isinstance(middlewares, BlockMiddleware): middlewares = [middlewares]`.
AsChain(middlewares) ==
    IF middlewares[1] = "step" THEN <<middlewares[2]>> ELSE middlewares[2]

\* The loop of apply_middleware: every turn builds a new list from the
\* receiver's own blocks and binds transformed_blocks to it.
RECURSIVE MiddlewareLoop(_, _, _, _)
MiddlewareLoop(w, l, transformed_blocks, middlewares) ==
    IF middlewares = <<>>
    THEN [w |-> w, addr |-> transformed_blocks]
    ELSE LET self_blocks == BlocksOf(w, l)
             n == NewList(w, [i \in 1..Len(self_blocks) |->
                                transform(Head(middlewares), self_blocks[i])])
         IN  MiddlewareLoop(n.w, l, n.addr, Tail(middlewares))

\* Library.apply_middleware: the world in which `res` names the Library
\* returned.
apply_middleware(w, l, middlewares, res) ==
    LET c == ListCopy(w, w.libs[l]._blocks)
        t == MiddlewareLoop(c.w, l, c.addr, AsChain(middlewares))
    IN  Library__init__(t.w, res, t.addr)

\* Garbage collection: the lists no Library refers to go, and the addresses
\* of the others are renumbered 1, 2, ... in their order.
Collect(w) ==
    LET live == {w.libs[l]._blocks : l \in DOMAIN w.libs}
        rank(a) == Cardinality({b \in live : b <= a})
    IN  [heap |-> [n \in 1..Cardinality(live) |->
                      w.heap[CHOOSE a \in live : rank(a) = n]],
         libs |-> [l \in DOMAIN w.libs |->
                      [w.libs[l] EXCEPT !._blocks = rank(@)]]]

-----------------------------------------------------------------------------
(* The state machine: a caller that builds and edits the Library `recv`,   *)
(* and now and then calls apply_middleware on it; `res` is the Library     *)
(* that call returned, which the caller reads and then lets go of before   *)
(* it edits `recv` again.                                                  *)

World == [heap |-> heap, libs |-> libs]

\* The blocks a caller can pass to Library l of world w: its own, and those
\* it can read from the Library.
Args(w, l) ==
    Universe \cup SeqRange(BlocksOf(w, l))
             \cup DictValues(w.libs[l]._entries_by_key)
             \cup DictValues(w.libs[l]._strings_by_key)

\* A `blocks` argument: one Block, or a list of blocks.
BlocksArgs(w, l) ==
    {<<"block", b>> : b \in Args(w, l)}
    \cup {<<"list", bs>> :
            bs \in UNION {[1..n -> Args(w, l)] : n \in 0..MaxBatch}}

\* A `middlewares` argument: one step, or a list of steps.
ChainArgs ==
    {<<"step", m>> : m \in Middlewares}
    \cup {<<"list", ms>> :
            ms \in UNION {[1..n -> Middlewares] : n \in 0..MaxChain}}

Init ==
    LET w == Library__init__([heap |-> <<>>, libs |-> <<>>], "recv", 0)
    IN  /\ heap = w.heap
        /\ libs = w.libs
        /\ last = [op |-> "__init__", exc |-> "None"]
        /\ only_adds = TRUE

Add(blocks) ==
    /\ DOMAIN libs = {"recv"}
    /\ Len(BlocksOf(World, "recv")) + Len(AsList(blocks)) <= MaxBlocks
    /\ LET r == add(World, "recv", blocks)
       IN  /\ heap' = r.w.heap
           /\ libs' = r.w.libs
           /\ last' = [op |-> "add", exc |-> r.exc]
    /\ UNCHANGED only_adds

Remove(blocks) ==
    /\ DOMAIN libs = {"recv"}
    /\ LET r == remove(World, "recv", blocks)
       IN  /\ heap' = r.w.heap
           /\ libs' = r.w.libs
           /\ last' = [op |-> "remove", exc |-> r.exc]
    /\ only_adds' = FALSE

Replace(old_block, new_block, fail_on_duplicate_key) ==
    /\ DOMAIN libs = {"recv"}
    /\ LET r == replace(World, "recv", old_block, new_block,
                        fail_on_duplicate_key)
       IN  /\ heap' = r.w.heap
           /\ libs' = r.w.libs
           /\ last' = [op |-> "replace", exc |-> r.exc]
    /\ only_adds' = FALSE

\* res = recv.apply_middleware(middlewares)
ApplyMiddleware(middlewares) ==
    LET w == Collect(apply_middleware(World, "recv", middlewares, "res"))
    IN  /\ heap' = w.heap
        /\ libs' = w.libs
        /\ last' = [op |-> "apply_middleware", exc |-> "None"]
        /\ UNCHANGED only_adds

\* del res
Drop ==
    /\ "res" \in DOMAIN libs
    /\ LET w == Collect([World EXCEPT
                           !.libs = [l \in {"recv"} |-> libs[l]]])
       IN  /\ heap' = w.heap
           /\ libs' = w.libs
    /\ last' = [op |-> "del", exc |-> "None"]
    /\ UNCHANGED only_adds

Next ==
    \/ \E blocks \in BlocksArgs(World, "recv") : Add(blocks)
    \/ \E blocks \in BlocksArgs(World, "recv") : Remove(blocks)
    \/ \E old_block, new_block \in Args(World, "recv") :
          \E fail_on_duplicate_key \in BOOLEAN :
             Replace(old_block, new_block, fail_on_duplicate_key)
    \/ \E middlewares \in ChainArgs : ApplyMiddleware(middlewares)
    \/ Drop

Spec == Init /\ [][Next]_vars

-----------------------------------------------------------------------------
(* Vocabulary of the properties.  A property about what a call does is     *)
(* stated on every reachable state: for every Library the caller holds and *)
(* every argument it can pass, the result of the operation on that state.  *)

EntriesOf(w, l) == w.libs[l]._entries_by_key
StringsOf(w, l) == w.libs[l]._strings_by_key

IsKeyed(b) == IsInstance(b, "Entry") \/ IsInstance(b, "String")

\* The dict a keyed block is registered in.
DictOf(w, l, b) ==
    IF IsInstance(b, "Entry") THEN EntriesOf(w, l) ELSE StringsOf(w, l)

Count(list, b) == Cardinality({i \in 1..Len(list) : SameBlock(list[i], b)})

\* list without its i-th element.
Without(list, i) == SubSeq(list, 1, i - 1) \o SubSeq(list, i + 1, Len(list))

\* new's key is held, in the dict of new's variant, by a block that is
\* neither old nor new.
HeldByThird(w, l, old, new) ==
    /\ IsKeyed(new)
    /\ new.key \in DOMAIN DictOf(w, l, new)
    /\ ~SameBlock(DictOf(w, l, new)[new.key], old)
    /\ ~SameBlock(DictOf(w, l, new)[new.key], new)

\* The steps of a chain applied one after the other to one block.
RECURSIVE Pipeline(_, _)
Pipeline(chain, b) ==
    IF chain = <<>> THEN b
    ELSE Pipeline(Tail(chain), transform(Head(chain), b))

\* The Library apply_middleware returns, as (world, "out").
Applied(l, middlewares) == apply_middleware(World, l, middlewares, "out")

-----------------------------------------------------------------------------
(* C1..C10 *)

\* C1: in every Library, after every operation, every value of the entry
\* dict and of the string dict occurs exactly once in the block list.
C1_MapValuesInSequence ==
    \A l \in DOMAIN libs :
        /\ \A k \in DOMAIN EntriesOf(World, l) :
              Count(BlocksOf(World, l), EntriesOf(World, l)[k]) = 1
        /\ \A k \in DOMAIN StringsOf(World, l) :
              Count(BlocksOf(World, l), StringsOf(World, l)[k]) = 1

\* C2: replace(old, new, fail_on_duplicate_key=True) with old in the Library
\* and new's key held by a third block raises "Duplicate key found." and
\* leaves the list and both dicts as they were.
C2_StrictReplaceRollsBack ==
    \A l \in DOMAIN libs : \A old, new \in Args(World, l) :
        (Contains(BlocksOf(World, l), old) /\ HeldByThird(World, l, old, new))
        => LET r == replace(World, l, old, new, TRUE)
           IN  /\ r.exc = "ValueError: Duplicate key found."
               /\ r.w = World

\* C3: the list built by add, remove and replace never holds two plain
\* Entry blocks, or two plain String blocks, with the same key.
C3_NoTwoPlainSameKey ==
    LET bs == BlocksOf(World, "recv")
    IN  \A i, j \in 1..Len(bs) :
            (/\ i < j
             /\ ~SameBlock(bs[i], bs[j])
             /\ IsKeyed(bs[i])
             /\ bs[i].type = bs[j].type)
            => bs[i].key # bs[j].key

\* C4: add returns normally for every argument, and appends one block per
\* block passed.
C4_AddNeverFails ==
    \A l \in DOMAIN libs : \A blocks \in BlocksArgs(World, l) :
        LET r == add(World, l, blocks)
        IN  /\ r.exc = "None"
            /\ Len(BlocksOf(r.w, l)) =
                  Len(BlocksOf(World, l)) + Len(AsList(blocks))

\* C5: the i-th block of the Library apply_middleware returns is the chain,
\* applied step after step in list order, to the receiver's i-th block.
C5_MiddlewarePipeline ==
    \A l \in DOMAIN libs : \A middlewares \in ChainArgs :
        LET bs == BlocksOf(World, l)
        IN  BlocksOf(Applied(l, middlewares), "out") =
               [i \in 1..Len(bs) |-> Pipeline(AsChain(middlewares), bs[i])]

\* C6: in the Library apply_middleware returns, the key of every Entry and
\* String of the list is in the dict of its variant, and two blocks of one
\* variant that come out with the same key leave a DuplicateKeyBlock for that
\* key in the dict and in the list.
C6_MiddlewareRebuildsMaps ==
    \A l \in DOMAIN libs : \A middlewares \in ChainArgs :
        LET w == Applied(l, middlewares)
            bs == BlocksOf(w, "out")
        IN  \A i \in 1..Len(bs) :
               IsKeyed(bs[i]) =>
                  /\ bs[i].key \in DOMAIN DictOf(w, "out", bs[i])
                  /\ (\E j \in 1..Len(bs) :
                         /\ j # i
                         /\ bs[j].type = bs[i].type
                         /\ bs[j].key = bs[i].key)
                     => LET d == DictOf(w, "out", bs[i])[bs[i].key]
                        IN  /\ IsInstance(d, "DuplicateKeyBlock")
                            /\ Contains(bs, d)

\* C7: add(E2), where E2 is an Entry (a String) whose key the entry (string)
\* dict maps to a plain Entry (String) E1, returns normally, maps the key to a
\* new DuplicateKeyBlock with that key, previous_block E1 and duplicate_block
\* E2, and appends that block to the list, which is otherwise as it was.
C7_SecondAddWraps ==
    \A l \in DOMAIN libs : \A duplicate \in Args(World, l) :
        (/\ IsKeyed(duplicate)
         /\ duplicate.key \in DOMAIN DictOf(World, l, duplicate)
         /\ IsKeyed(DictOf(World, l, duplicate)[duplicate.key]))
        => LET prev == DictOf(World, l, duplicate)[duplicate.key]
               r == add(World, l, <<"block", duplicate>>)
               d == DictOf(r.w, l, duplicate)[duplicate.key]
           IN  /\ r.exc = "None"
               /\ IsInstance(d, "DuplicateKeyBlock")
               /\ d.key = duplicate.key
               /\ d.previous_block = prev
               /\ d.duplicate_block = duplicate
               /\ d \notin LiveBlocks(World)
               /\ BlocksOf(r.w, l) = Append(BlocksOf(World, l), d)

\* A second add of an entry with the key of the first has just returned.
C7_Witness ==
    LET bs == BlocksOf(World, "recv")
    IN  /\ last = [op |-> "add", exc |-> "None"]
        /\ Len(bs) = 2
        /\ bs[1] = E1
        /\ IsInstance(bs[2], "DuplicateKeyBlock")
        /\ bs[2].previous_block = E1
        /\ bs[2].duplicate_block = E2
        /\ EntriesOf(World, "recv")["k1"] = bs[2]

\* C8: remove(b) and replace(b, new, ...) with b not in the list raise
\* ValueError and leave the list and both dicts as they were.
C8_NotFoundLeavesLibrary ==
    \A l \in DOMAIN libs : \A b \in Args(World, l) :
        ~Contains(BlocksOf(World, l), b)
        => /\ LET r == remove(World, l, <<"block", b>>)
              IN  /\ r.exc = "ValueError: list.remove(x): x not in list"
                  /\ r.w = World
           /\ \A new \in Args(World, l) : \A fail \in BOOLEAN :
                 LET r == replace(World, l, b, new, fail)
                 IN  /\ r.exc = "ValueError: Block to replace is not in library."
                     /\ r.w = World

\* A remove of a block that is not in a non-empty Library has just raised.
C8_Witness ==
    /\ last = [op |-> "remove",
               exc |-> "ValueError: list.remove(x): x not in list"]
    /\ BlocksOf(World, "recv") # <<>>
    /\ DOMAIN EntriesOf(World, "recv") # {}

\* C9: remove(b) of a block of the list returns normally, takes one b out of
\* the list and leaves the rest in order, and leaves the key of an Entry or
\* String b absent from the dict of its variant.
C9_RemovePresentSucceeds ==
    \A l \in DOMAIN libs : \A b \in SeqRange(BlocksOf(World, l)) :
        LET r == remove(World, l, <<"block", b>>)
            bs == BlocksOf(World, l)
        IN  /\ r.exc = "None"
            /\ \E i \in 1..Len(bs) :
                  SameBlock(bs[i], b) /\ BlocksOf(r.w, l) = Without(bs, i)
            /\ IsKeyed(b) => b.key \notin DOMAIN DictOf(r.w, l, b)

\* C10: replace(old, new, fail_on_duplicate_key=False) with new's key held by
\* a third block leaves, where old was, the DuplicateKeyBlock that wraps the
\* holder and new.
C10_LenientReplacePutsDuplicate ==
    \A l \in DOMAIN libs : \A old, new \in Args(World, l) :
        (Contains(BlocksOf(World, l), old) /\ HeldByThird(World, l, old, new))
        => LET r == replace(World, l, old, new, FALSE)
               at == BlocksOf(r.w, l)[ListIndex(BlocksOf(World, l), old)]
           IN  /\ IsInstance(at, "DuplicateKeyBlock")
               /\ at.previous_block = DictOf(World, l, new)[new.key]
               /\ at.duplicate_block = new

-----------------------------------------------------------------------------
(* C11..C20 *)

\* C11: replace(old, new, fail_on_duplicate_key=False) with new's key held by
\* a third block returns normally, and afterwards the dict maps new's key to
\* a DuplicateKeyBlock whose previous_block is that holder and whose
\* duplicate_block is new.
C11_LenientReplaceMapsDuplicate ==
    \A l \in DOMAIN libs : \A old, new \in Args(World, l) :
        (Contains(BlocksOf(World, l), old) /\ HeldByThird(World, l, old, new))
        => LET r == replace(World, l, old, new, FALSE)
               holder == DictOf(World, l, new)[new.key]
           IN  /\ r.exc = "None"
               /\ new.key \in DOMAIN DictOf(r.w, l, new)
               /\ LET d == DictOf(r.w, l, new)[new.key]
                  IN  /\ IsInstance(d, "DuplicateKeyBlock")
                      /\ d.previous_block = holder
                      /\ d.duplicate_block = new

\* No key collision for replace(old, new): new has no key, or its key is not
\* in the dict of its variant, or old is of that variant and bears that key
\* (the removal of old then frees it).
NoCollision(w, l, old, new) ==
    \/ ~IsKeyed(new)
    \/ new.key \notin DOMAIN DictOf(w, l, new)
    \/ (IsInstance(old, new.type) /\ old.key = new.key)

\* The dict d of variant t after old's key went and new's key came.
DictAfterReplace(d, t, old, new) ==
    LET d1 == IF IsInstance(old, t) THEN DictDel(d, old.key) ELSE d
    IN  IF IsInstance(new, t) THEN DictSet(d1, new.key, new) ELSE d1

\* C12: a replace(old, new) that returns normally and meets no key collision
\* leaves new at the index old had and every other position of the list as
\* it was, and leaves each dict as it was except that old's key is gone from
\* the dict of old's variant and new's key maps to new in the dict of new's
\* variant; old and new may bear the same key.
C12_ReplaceInPlace ==
    \A l \in DOMAIN libs : \A old, new \in Args(World, l) :
        \A fail \in BOOLEAN :
            LET bs == BlocksOf(World, l)
                r == replace(World, l, old, new, fail)
            IN  (/\ Contains(bs, old)
                 /\ NoCollision(World, l, old, new)
                 /\ r.exc = "None")
                => /\ BlocksOf(r.w, l) =
                         [bs EXCEPT ![ListIndex(bs, old)] = new]
                   /\ EntriesOf(r.w, l) =
                         DictAfterReplace(EntriesOf(World, l), "Entry",
                                          old, new)
                   /\ StringsOf(r.w, l) =
                         DictAfterReplace(StringsOf(World, l), "String",
                                          old, new)

\* A replace of the first of two blocks by an entry with the same key has
\* just returned: the new entry is first, the second block is where it was.
C12_Witness ==
    /\ last = [op |-> "replace", exc |-> "None"]
    /\ BlocksOf(World, "recv") = <<E2, E3>>
    /\ EntriesOf(World, "recv") = [k \in {"k1", "k2"} |->
                                      IF k = "k1" THEN E2 ELSE E3]

\* Library l of world w2 is what it was in world w1: the same list object
\* with the same elements, and the same two dicts.
SameLibrary(w1, w2, l) ==
    /\ w2.libs[l] = w1.libs[l]
    /\ BlocksOf(w2, l) = BlocksOf(w1, l)

\* C13: apply_middleware, for every chain, returns a Library with a list
\* object of its own and leaves the receiver's list and both dicts as they
\* were; with the empty chain the list returned has the receiver's blocks in
\* the receiver's order; and no add, remove or replace on the Library
\* returned changes the receiver's list or dicts.
C13_MiddlewareLeavesReceiver ==
    /\ \A l \in DOMAIN libs : \A middlewares \in ChainArgs :
          LET w == Applied(l, middlewares)
          IN  /\ SameLibrary(World, w, l)
              /\ w.libs["out"]._blocks # w.libs[l]._blocks
              /\ AsChain(middlewares) = <<>>
                    => BlocksOf(w, "out") = BlocksOf(World, l)
    /\ "res" \in DOMAIN libs
       => /\ libs["res"]._blocks # libs["recv"]._blocks
          /\ \A blocks \in BlocksArgs(World, "res") :
                /\ SameLibrary(World, add(World, "res", blocks).w, "recv")
                /\ SameLibrary(World, remove(World, "res", blocks).w, "recv")
          /\ \A old, new \in Args(World, "res") : \A fail \in BOOLEAN :
                SameLibrary(World, replace(World, "res", old, new, fail).w,
                            "recv")

\* apply_middleware has just returned a Library with the blocks of a receiver
\* that holds two blocks and has a key registered.
C13_Witness ==
    /\ last = [op |-> "apply_middleware", exc |-> "None"]
    /\ "res" \in DOMAIN libs
    /\ Len(BlocksOf(World, "recv")) = 2
    /\ BlocksOf(World, "res") = BlocksOf(World, "recv")
    /\ DOMAIN EntriesOf(World, "recv") # {}

\* The accessors strings, strings_dict, entries and entries_dict: the values
\* of a dict (as a set: the order of the list returned is not modelled), and
\* a copy of the dict.
strings(w, l) == DictValues(w.libs[l]._strings_by_key)
strings_dict(w, l) == w.libs[l]._strings_by_key
entries(w, l) == DictValues(w.libs[l]._entries_by_key)
entries_dict(w, l) == w.libs[l]._entries_by_key

\* The blocks of variant t in the list of Library l.
BlocksOfType(w, l, t) == {b \in SeqRange(BlocksOf(w, l)) : IsInstance(b, t)}

\* C14: in every Library, in every state, `entries` returns exactly the Entry
\* blocks of the list and `strings` exactly its String blocks, and
\* entries_dict / strings_dict map the key of each of them to it.
C14_AccessorsMatchSequence ==
    \A l \in DOMAIN libs :
        /\ entries(World, l) = BlocksOfType(World, l, "Entry")
        /\ strings(World, l) = BlocksOfType(World, l, "String")
        /\ \A b \in BlocksOfType(World, l, "Entry") :
              /\ b.key \in DOMAIN entries_dict(World, l)
              /\ entries_dict(World, l)[b.key] = b
        /\ \A b \in BlocksOfType(World, l, "String") :
              /\ b.key \in DOMAIN strings_dict(World, l)
              /\ strings_dict(World, l)[b.key] = b

\* Block `at` of the list stands for the added block b: it is b, or the
\* DuplicateKeyBlock made for b.
StandsFor(at, b) ==
    \/ SameBlock(at, b)
    \/ (IsInstance(at, "DuplicateKeyBlock") /\ SameBlock(at.duplicate_block, b))

\* C15: on a Library built by add calls alone, every further add (of one
\* block or of a list) leaves the blocks already in the list where they were
\* and appends one element per block passed, in the order passed: the block
\* itself, or the DuplicateKeyBlock that stands for it.
C15_AddKeepsInsertionOrder ==
    only_adds =>
        \A blocks \in BlocksArgs(World, "recv") :
            LET bs == BlocksOf(World, "recv")
                added == AsList(blocks)
                after == BlocksOf(add(World, "recv", blocks).w, "recv")
            IN  /\ Len(after) = Len(bs) + Len(added)
                /\ SubSeq(after, 1, Len(bs)) = bs
                /\ \A i \in 1..Len(added) :
                      StandsFor(after[Len(bs) + i], added[i])

\* The list of Library l was built without a key collision: it holds no
\* DuplicateKeyBlock.
NoDuplicates(w, l) ==
    \A b \in SeqRange(BlocksOf(w, l)) : ~IsInstance(b, "DuplicateKeyBlock")

\* The dict d holds exactly the keys of the blocks of variant t of the list
\* of Library l, each mapped to its block, which is at one position.
DictMirrorsList(w, l, d, t) ==
    /\ DOMAIN d = {b.key : b \in BlocksOfType(w, l, t)}
    /\ \A b \in BlocksOfType(w, l, t) :
          /\ SameBlock(d[b.key], b)
          /\ Count(BlocksOf(w, l), b) = 1

\* C16: in a Library built by add calls alone in which no two Entries and no
\* two Strings shared a key, the keys of the entry dict are the keys of the
\* Entry blocks of the list, each key maps to that very block, and the block
\* is at exactly one position; the same for Strings and the string dict.
C16_AddOnlyDictsMirrorList ==
    (only_adds /\ NoDuplicates(World, "recv"))
    => /\ DictMirrorsList(World, "recv", EntriesOf(World, "recv"), "Entry")
       /\ DictMirrorsList(World, "recv", StringsOf(World, "recv"), "String")

\* An entry and a string with the same key have been added, and nothing else
\* was called.
C16_Witness ==
    /\ only_adds
    /\ last = [op |-> "add", exc |-> "None"]
    /\ BlocksOf(World, "recv") = <<E1, S1>>
    /\ EntriesOf(World, "recv")["k1"] = E1
    /\ StringsOf(World, "recv")["k1"] = S1

\* The dict of the variant a keyed block b is not of.
OtherDictOf(w, l, b) ==
    IF IsInstance(b, "Entry") THEN StringsOf(w, l) ELSE EntriesOf(w, l)

\* Library l holds, in its list or in the other variant's dict, a block of
\* the other keyed variant with b's key.
OtherVariantHoldsKey(w, l, b) ==
    \E c \in SeqRange(BlocksOf(w, l)) \cup DictValues(OtherDictOf(w, l, b)) :
        IsKeyed(c) /\ c.type # b.type /\ c.key = b.key

\* The DuplicateKeyBlocks of world w1 that world w0 did not have.
NewDuplicates(w0, w1) ==
    {d \in LiveBlocks(w1) \ LiveBlocks(w0) : IsInstance(d, "DuplicateKeyBlock")}

\* A DuplicateKeyBlock came up between w0 and w1 only for b and a holder of
\* b's key that is of b's variant.
OnlySameVariantDuplicates(w0, w1, l, b) ==
    \A d \in NewDuplicates(w0, w1) :
        /\ b.key \in DOMAIN DictOf(w0, l, b)
        /\ IsInstance(DictOf(w0, l, b)[b.key], b.type)
        /\ d.previous_block = DictOf(w0, l, b)[b.key]
        /\ d.duplicate_block = b

\* C17 as stated: with a block of the other variant bearing key k in the
\* Library, an add of, or a replace by, an Entry or String b with key k makes
\* a DuplicateKeyBlock only when a block of b's variant holds k, and leaves
\* the other variant's dict as it was.
C17_OtherMapUnchanged ==
    \A l \in DOMAIN libs : \A b \in Args(World, l) :
        (IsKeyed(b) /\ OtherVariantHoldsKey(World, l, b))
        => /\ LET r == add(World, l, <<"block", b>>)
              IN  /\ OnlySameVariantDuplicates(World, r.w, l, b)
                  /\ OtherDictOf(r.w, l, b) = OtherDictOf(World, l, b)
           /\ \A old \in SeqRange(BlocksOf(World, l)) : \A fail \in BOOLEAN :
                 LET r == replace(World, l, old, b, fail)
                 IN  /\ OnlySameVariantDuplicates(World, r.w, l, b)
                     /\ OtherDictOf(r.w, l, b) = OtherDictOf(World, l, b)

\* C17, amended: as above, but a replace whose old block is of the other
\* variant takes old's own key out of the other variant's dict, and that is
\* all that dict loses.
C17_OtherMapKeepsAllButOld ==
    \A l \in DOMAIN libs : \A b \in Args(World, l) :
        (IsKeyed(b) /\ OtherVariantHoldsKey(World, l, b))
        => /\ LET r == add(World, l, <<"block", b>>)
              IN  /\ OnlySameVariantDuplicates(World, r.w, l, b)
                  /\ OtherDictOf(r.w, l, b) = OtherDictOf(World, l, b)
           /\ \A old \in SeqRange(BlocksOf(World, l)) : \A fail \in BOOLEAN :
                 LET r == replace(World, l, old, b, fail)
                     other == OtherDictOf(World, l, b)
                 IN  /\ OnlySameVariantDuplicates(World, r.w, l, b)
                     /\ IF IsKeyed(old) /\ old.type # b.type
                        THEN OtherDictOf(r.w, l, b)
                                \in {other, DictDel(other, old.key)}
                        ELSE OtherDictOf(r.w, l, b) = other

\* A replace has just put an entry into a Library that holds a string with
\* the entry's key: each is registered in the dict of its variant, and the
\* list holds no DuplicateKeyBlock.
C17_Witness ==
    /\ last = [op |-> "replace", exc |-> "None"]
    /\ BlocksOf(World, "recv") = <<S1, E1>>
    /\ EntriesOf(World, "recv") = [k \in {"k1"} |-> E1]
    /\ StringsOf(World, "recv") = [k \in {"k1"} |-> S1]

\* The index of the first block of bs, from the i-th on, that is not in the
\* list once the blocks before it were taken out one by one; 0 if there is
\* none.
RECURSIVE FirstAbsent(_, _, _)
FirstAbsent(list, bs, i) ==
    IF i > Len(bs) THEN 0
    ELSE IF ~Contains(list, bs[i]) THEN i
    ELSE FirstAbsent(ListRemove(list, bs[i]), bs, i + 1)

\* The list with the first n blocks of bs taken out one by one.
RECURSIVE TakenOut(_, _, _)
TakenOut(list, bs, n) ==
    IF n = 0 THEN list
    ELSE ListRemove(TakenOut(list, bs, n - 1), bs[n])

\* The dict d of variant t without the keys of the first n blocks of bs.
WithoutKeysOf(d, t, bs, n) ==
    [k \in DOMAIN d \ {bs[j].key : j \in {x \in 1..n : IsInstance(bs[x], t)}}
        |-> d[k]]

\* C18: remove([b1, ..., bn]) whose first block not in the list is bi raises
\* the not-found ValueError with b1..b(i-1) out of the list and their keys
\* out of the dicts, and everything else as it was; add([b1, b2]) is add(b1)
\* followed, if it returned, by add(b2).
C18_BatchesAreSequential ==
    \A l \in DOMAIN libs : \A blocks \in BlocksArgs(World, l) :
        LET bs == AsList(blocks)
            i == FirstAbsent(BlocksOf(World, l), bs, 1)
            r == remove(World, l, blocks)
            a1 == add(World, l, <<"block", bs[1]>>)
        IN  /\ i > 0
               => /\ r.exc = "ValueError: list.remove(x): x not in list"
                  /\ BlocksOf(r.w, l) = TakenOut(BlocksOf(World, l), bs, i - 1)
                  /\ EntriesOf(r.w, l) =
                        WithoutKeysOf(EntriesOf(World, l), "Entry", bs, i - 1)
                  /\ StringsOf(r.w, l) =
                        WithoutKeysOf(StringsOf(World, l), "String", bs, i - 1)
            /\ Len(bs) = 2
               => add(World, l, blocks) =
                     IF a1.exc # "None" THEN a1
                     ELSE add(a1.w, l, <<"block", bs[2]>>)

\* A DuplicateKeyBlock whose two blocks are of one keyed variant and bear its
\* key.
WellFormedDuplicate(d) ==
    /\ IsKeyed(d.previous_block)
    /\ d.duplicate_block.type = d.previous_block.type
    /\ d.previous_block.key = d.key
    /\ d.duplicate_block.key = d.key

\* C19: every DuplicateKeyBlock a Library refers to wraps two blocks of the
\* same keyed variant (never a DuplicateKeyBlock) that bear its key, and so
\* does every one a registration makes; a registration that finds the key
\* held by a block that is not of the new block's variant raises
\* AssertionError and makes no DuplicateKeyBlock.
C19_DuplicatesWellFormed ==
    /\ \A d \in LiveBlocks(World) :
          IsInstance(d, "DuplicateKeyBlock") => WellFormedDuplicate(d)
    /\ \A l \in DOMAIN libs : \A b \in Args(World, l) :
          LET r == _add_to_dicts(World, l, b)
          IN  /\ \A d \in NewDuplicates(World, r.w) : WellFormedDuplicate(d)
              /\ (/\ IsKeyed(b)
                  /\ b.key \in DOMAIN DictOf(World, l, b)
                  /\ ~IsInstance(DictOf(World, l, b)[b.key], b.type))
                 => /\ r.exc = "AssertionError"
                    /\ NewDuplicates(World, r.w) = {}

\* A replace has just registered an entry whose key another entry held: the
\* dict maps the key to the DuplicateKeyBlock of the two.
C19_Witness ==
    /\ last = [op |-> "replace", exc |-> "None"]
    /\ "k1" \in DOMAIN EntriesOf(World, "recv")
    /\ LET d == EntriesOf(World, "recv")["k1"]
       IN  /\ IsInstance(d, "DuplicateKeyBlock")
           /\ d.previous_block = E1
           /\ d.duplicate_block = E2

\* Block v may be registered under key k in the dict of variant t: it is a
\* block of variant t with key k, or a DuplicateKeyBlock with key k made for
\* a block of variant t.
RegisteredUnder(v, k, t) ==
    /\ v.key = k
    /\ \/ IsInstance(v, t)
       \/ (IsInstance(v, "DuplicateKeyBlock")
           /\ IsInstance(v.duplicate_block, t))

\* C20: in every state, also after a call that raised, every value of the
\* entry dict is an Entry, or a DuplicateKeyBlock made for an Entry, with the
\* key it is stored under, and every value of the string dict is a String, or
\* a DuplicateKeyBlock made for a String, with the key it is stored under.
C20_DictValuesOfOwnVariant ==
    \A l \in DOMAIN libs :
        /\ \A k \in DOMAIN EntriesOf(World, l) :
              RegisteredUnder(EntriesOf(World, l)[k], k, "Entry")
        /\ \A k \in DOMAIN StringsOf(World, l) :
              RegisteredUnder(StringsOf(World, l)[k], k, "String")

\* A replace has just raised AssertionError while it registered an entry, and
\* the entry dict holds that entry under its key.
C20_Witness ==
    /\ last = [op |-> "replace", exc |-> "AssertionError"]
    /\ BlocksOf(World, "recv") = <<E1, E2>>
    /\ EntriesOf(World, "recv") = [k \in {"k1"} |-> E2]

====
